---- MODULE Spec2Model ----
(***************************************************************************)
(* website.py: a Streamlit script that classifies an uploaded brain MRI    *)
(* scan.  Every interaction reruns the script top to bottom: load_models   *)
(* (cached by st.cache_resource), the upload widget, and, when a file is   *)
(* uploaded, decode -> BGR2RGB -> preprocess_image -> feature extractor -> *)
(* feature selector -> classifier -> argmax -> preview, chart, diagnosis,  *)
(* all inside one try/except.                                              *)
(*                                                                         *)
(* Rasters are flat-colour: shape <<h, w, c>> and one pixel px = <<c1, c2, *)
(* c3>> that every position holds.  On such rasters cv2.resize, the global *)
(* statistics and CLAHE are computed exactly as on the full array.         *)
(* Floating-point values are fixed-point integers in units of 1/FP.        *)
(***************************************************************************)
EXTENDS Integers, Sequences, FiniteSets

VARIABLES
    artifacts,          \* the three model files on disk (fixed for the process)
    cache,              \* st.cache_resource entry of load_models
    loads,              \* how many times the body of load_models has completed
    models,             \* globals feature_extractor, feature_selector, mlp_loaded
    uploaded_file,      \* the upload widget's value in this run
    pc,                 \* position of the script run
    img,                \* cv2.imdecode result (blue/green/red), or None
    img_rgb,            \* cv2.cvtColor result (red/green/blue)
    pp,                 \* locals of preprocess_image in this run
    img_processed,      \* predict_image_class: img_processed
    features,           \* predict_image_class: features
    selected_features,  \* predict_image_class: selected_features
    prediction_probs,   \* predict_image_class: prediction_probs
    predictions,        \* the dict returned by predict_image_class
    predicted_class,    \* max(predictions, key=predictions.get)
    page,               \* what this run has rendered
    failed,             \* the step that raised in this run, or None
    trace,              \* the steps this run has executed, in order
    runs,               \* script runs started in this process
    used,               \* identities of the model objects inferences have used
    history             \* <<image, distribution>> of every completed inference

vars == <<artifacts, cache, loads, models, uploaded_file, pc, img, img_rgb, pp,
          img_processed, features, selected_features, prediction_probs,
          predictions, predicted_class, page, failed, trace, runs, used, history>>

None == "None"
\* np.nan / np.inf: a value outside the range of every finite value
NaN == -1000000000

\* Script runs explored per process.
MaxRuns == 3

(***************************************************************************)
(* Constants of the script                                                 *)
(***************************************************************************)
IMG_SIZE == <<224, 224>>
CLASS_NAMES == <<"Glioma", "Meningioma", "No Tumor", "Pituitary">>
CHANNELS == 3
\* clipLimit=0.02 as a fraction of ClipLimitDen
ClipLimitNum == 2
ClipLimitDen == 100
TileGrid == 8
\* np.uint8: 256 values
HistSize == 256
\* resolution of the fixed-point stand-in for np.float32
FP == 1000

(***************************************************************************)
(* Sequence helpers                                                        *)
(***************************************************************************)
Range(s) == {s[i] : i \in DOMAIN s}

RECURSIVE SeqSum(_)
SeqSum(s) == IF s = <<>> THEN 0 ELSE Head(s) + SeqSum(Tail(s))

SeqMin(s) == CHOOSE x \in Range(s) : \A y \in Range(s) : x <= y
SeqMax(s) == CHOOSE x \in Range(s) : \A y \in Range(s) : x >= y

Reverse(s) == [i \in DOMAIN s |-> s[Len(s) + 1 - i]]

Min2(a, b) == IF a <= b THEN a ELSE b
Max2(a, b) == IF a >= b THEN a ELSE b

RECURSIVE IsqrtIn(_, _, _)
IsqrtIn(n, lo, hi) ==
    IF lo >= hi THEN lo
    ELSE LET mid == (lo + hi + 1) \div 2
         IN  IF mid * mid <= n THEN IsqrtIn(n, mid, hi) ELSE IsqrtIn(n, lo, mid - 1)

\* floor of the square root
Isqrt(n) == IsqrtIn(n, 0, 46340)

(***************************************************************************)
(* preprocess_image                                                        *)
(***************************************************************************)
\* cv2.resize(image, IMG_SIZE): dsize is (width, height); the result has
\* shape (height, width, channels).  Interpolating a flat raster gives the
\* same flat raster.
ResizeKeep(image, size) == image

Resize(image, size) ==
    [shape |-> <<size[2], size[1], image.shape[3]>>, px |-> image.px]

\* x + 1e-8.  1e-8 is below the fixed-point resolution, so the sum keeps
\* the two parts: v units of 1/FP plus eps times 1e-8.
AddNothing(x) == [v |-> x, eps |-> 0]

AddEps(x) == [v |-> x, eps |-> 1]

Positive(d) == d.v > 0 \/ (d.v = 0 /\ d.eps > 0)

\* x / d in units of 1/FP, x in units of 1/FP.  With d.v = 0 the divisor is
\* eps * 1e-8: 0 / 1e-8 = 0, x / 1e-8 overflows the model's range, and a
\* zero divisor gives nan (0/0) or inf: both are NaN here.
Divide(x, d) ==
    IF x = NaN THEN NaN
    ELSE IF d.v # 0 THEN (x * FP) \div d.v
    ELSE IF d.eps > 0 /\ x = 0 THEN 0
    ELSE NaN

Finite(s) == \A i \in DOMAIN s : s[i] # NaN

\* np.mean and np.std over the whole array: on a flat raster every channel
\* has the same weight.  Deviations are in units of 1/CHANNELS (exact);
\* the standard deviation is returned in units of 1/FP.
Deviations(px) == [i \in DOMAIN px |-> Len(px) * px[i] - SeqSum(px)]

Std(px) ==
    LET dev == Deviations(px)
        ss  == SeqSum([i \in DOMAIN dev |-> dev[i] * dev[i]])
    IN  \* sqrt(ss / (n * n^2)), in units of 1/FP, computed as
        \* isqrt(ss * 100 / n) * (FP / 10) / n
        (Isqrt((ss * 100) \div Len(px)) * (FP \div 10)) \div Len(px)

\* (img - np.mean(img)) / (np.std(img) + 1e-8), in units of 1/FP
Standardize(px, d) ==
    LET dev == Deviations(px)
    IN  [i \in DOMAIN px |-> Divide((dev[i] * FP) \div Len(px), d)]

\* np.ptp(img)
Ptp(z) == IF Finite(z) THEN SeqMax(z) - SeqMin(z) ELSE NaN

\* (img - np.min(img)) / (np.ptp(img) + 1e-8)
Rescale(z, d) ==
    IF Finite(z) /\ d.v # NaN
    THEN [i \in DOMAIN z |-> Divide(z[i] - SeqMin(z), d)]
    ELSE [i \in DOMAIN z |-> NaN]

\* (img * 255).astype(np.uint8): truncation, then 8 bits.  The conversion of
\* a nan is unspecified; no run reaches it, the rescaled image being finite
\* (C7_EpsilonGuards and the non-zero divisors of every other image).
Quantize(u) ==
    [i \in DOMAIN u |->
        IF u[i] = NaN THEN 0 ELSE ((u[i] * (HistSize - 1)) \div FP) % HistSize]

\* clahe.apply on one channel of a flat 224x224 raster with value v.  Every
\* tile (224/8 = 28 pixels a side) has the histogram "all pixels at v"; the
\* histogram is clipped at max(int(clipLimit * tilePixels / 256), 1), the
\* excess is spread over all bins (the remainder over every residualStep-th
\* bin), and the look-up value is the rounded scaled cumulative sum.  All
\* tiles share the table, so interpolating between tiles changes nothing.
ClaheApply(v, size) ==
    LET tilePixels == (size[1] \div TileGrid) * (size[2] \div TileGrid)
        clip       == Max2((ClipLimitNum * tilePixels) \div (ClipLimitDen * HistSize), 1)
        clipped    == Max2(tilePixels - clip, 0)
        batch      == clipped \div HistSize
        residual   == clipped - batch * HistSize
        step       == IF residual = 0 THEN 1 ELSE Max2(HistSize \div residual, 1)
        bumped     == IF residual = 0 THEN 0 ELSE Min2(residual, (v \div step) + 1)
        cdf        == batch * (v + 1) + Min2(tilePixels, clip) + bumped
        lut        == (2 * cdf * (HistSize - 1) + tilePixels) \div (2 * tilePixels)
    IN  Min2(lut, HistSize - 1)

\* img_clahe.astype(np.float32) / 255.0: a value is the fraction num/den
ToUnit(k) == [num |-> k, den |-> HistSize - 1]

\* all locals of preprocess_image
PreprocessLocals(image) ==
    LET resized == Resize(image, IMG_SIZE)
        d1      == AddEps(Std(resized.px))
        z       == Standardize(resized.px, d1)
        d2      == AddEps(Ptp(z))
        u       == Rescale(z, d2)
        q       == Quantize(u)
        eq      == [i \in 1..CHANNELS |-> ClaheApply(q[i], IMG_SIZE)]
    IN  [image |-> image, img_resized |-> resized, std_div |-> d1, standardized |-> z,
         ptp_div |-> d2, rescaled |-> u, quantized |-> q,
         img_clahe |-> [shape |-> resized.shape,
                        px |-> [i \in 1..CHANNELS |-> ToUnit(eq[i])]]]

preprocess_image(image) == PreprocessLocals(image).img_clahe

(***************************************************************************)
(* The loaded models: opaque collaborators.  A loaded model object is the  *)
(* content of its artifact; calling it is a function of that content and   *)
(* of the argument only.                                                   *)
(***************************************************************************)
NoImage == [shape |-> <<0, 0, 0>>, px |-> <<>>]
NoDict == [keys |-> <<>>, val |-> <<>>]
NoModels == [id |-> 0, feature_extractor |-> 0, feature_selector |-> <<>>,
             mlp_loaded |-> <<>>]

\* Probabilities are in units of 1/10000.
ProbTableA ==
    << <<9700, 100, 100, 100>>, <<2500, 2500, 2500, 2500>>,
       <<1000, 4000, 4000, 1000>>, <<0, 0, 5000, 5000>>,
       <<549, 1251, 3345, 4855>> >>
ProbTableB ==
    << <<3333, 3333, 3334, 0>>, <<100, 9750, 100, 50>>,
       <<4000, 1000, 1000, 4000>>, <<0, 0, 0, 10000>> >>

Artifacts ==
    [feature_extractor : {7}, feature_selector : {<<1, 4>>, <<2, 3, 4>>},
     mlp_loaded : {ProbTableA, ProbTableB}]

\* tf.expand_dims(x, axis=0)
ExpandDims(x) == <<x>>

\* feature_extractor.predict(batch, verbose=0): one embedding row per image
ExtractorPredict(fe, batch) ==
    [b \in DOMAIN batch |->
        LET k == [i \in DOMAIN batch[b].px |-> batch[b].px[i].num]
        IN  <<k[1], k[2], k[3], (k[1] + fe * k[2] + k[3]) % HistSize>>]

\* feature_selector.transform(features): keeps the fitted columns
SelectorTransform(fs, rows) ==
    [b \in DOMAIN rows |-> [j \in DOMAIN fs |-> rows[b][fs[j]]]]

\* classifier.predict_proba(selected_features): one probability row per row
PredictProbaDrift(clf, rows) ==
    [b \in DOMAIN rows |-> clf[((SeqSum(rows[b]) + runs) % Len(clf)) + 1]]

PredictProba(clf, rows) ==
    [b \in DOMAIN rows |-> clf[(SeqSum(rows[b]) % Len(clf)) + 1]]

(***************************************************************************)
(* dict(zip(...)) and max(..., key=...)                                    *)
(***************************************************************************)
\* A dict is its keys in insertion order and the value of each key.
\* zip stops at the shorter argument; a repeated key keeps its first
\* position and its last value.
RECURSIVE Dedup(_)
Dedup(s) ==
    IF s = <<>> THEN <<>>
    ELSE LET rest == Dedup(SubSeq(s, 1, Len(s) - 1))
         IN  IF s[Len(s)] \in Range(rest) THEN rest ELSE Append(rest, s[Len(s)])

DictZipShifted(names, values) ==
    LET n == Min2(Len(names), Len(values))
    IN  [keys |-> SubSeq(names, 1, n),
         val  |-> [k \in Range(SubSeq(names, 1, n)) |->
                     values[((CHOOSE i \in 1..n : names[i] = k) % n) + 1]]]

DictZip(names, values) ==
    LET n == Min2(Len(names), Len(values))
        ks == SubSeq(names, 1, n)
    IN  [keys |-> Dedup(ks),
         val  |-> [k \in Range(ks) |->
                     values[CHOOSE i \in 1..n :
                               /\ names[i] = k
                               /\ \A j \in 1..n : names[j] = k => j <= i]]]

\* max(d, key=d.get): iterates the keys in insertion order and replaces the
\* kept key only by a strictly greater one, so the first maximal key wins.
MaxKeyLast(d) ==
    d.keys[CHOOSE i \in DOMAIN d.keys :
              /\ \A j \in DOMAIN d.keys : d.val[d.keys[j]] <= d.val[d.keys[i]]
              /\ \A j \in DOMAIN d.keys :
                    d.val[d.keys[j]] = d.val[d.keys[i]] => j <= i]

MaxKey(d) ==
    d.keys[CHOOSE i \in DOMAIN d.keys :
              /\ \A j \in DOMAIN d.keys : d.val[d.keys[j]] <= d.val[d.keys[i]]
              /\ \A j \in DOMAIN d.keys :
                    d.val[d.keys[j]] = d.val[d.keys[i]] => i <= j]

\* f"{p*100:.1f}": the percentage rounded to one decimal, in tenths of a
\* percent (p in units of 1/10000)
FormatPercent(p) == (p + 5) \div 10

(***************************************************************************)
(* The script run                                                          *)
(***************************************************************************)
\* Uploads: a file that decodes to a flat raster of the given shape and
\* red/green/blue colour, or one that does not decode.
NoFile == [name |-> None, ok |-> FALSE, shape |-> <<0, 0, 0>>, rgb |-> <<>>]
Uploads ==
    { [name |-> "black.png", ok |-> TRUE, shape |-> <<512, 512, 3>>, rgb |-> <<0, 0, 0>>],
      [name |-> "grey.jpg", ok |-> TRUE, shape |-> <<300, 200, 3>>, rgb |-> <<100, 100, 100>>],
      [name |-> "white.png", ok |-> TRUE, shape |-> <<1, 1, 3>>, rgb |-> <<255, 255, 255>>],
      [name |-> "scan1.jpg", ok |-> TRUE, shape |-> <<300, 200, 3>>, rgb |-> <<0, 100, 255>>],
      [name |-> "scan2.png", ok |-> TRUE, shape |-> <<512, 512, 3>>, rgb |-> <<200, 30, 31>>],
      [name |-> "faint.png", ok |-> TRUE, shape |-> <<64, 48, 3>>, rgb |-> <<10, 10, 11>>],
      [name |-> "broken.jpg", ok |-> FALSE, shape |-> <<0, 0, 0>>, rgb |-> <<>>] }

\* cv2.imdecode(file_bytes, cv2.IMREAD_COLOR): a blue/green/red raster, or
\* None when the bytes do not decode
Imdecode(file) ==
    IF file.ok THEN [shape |-> file.shape, px |-> Reverse(file.rgb)] ELSE NoImage

\* cv2.cvtColor(img, cv2.COLOR_BGR2RGB)
CvtColorKeep(image) == image

CvtColor(image) == [image EXCEPT !.px = Reverse(@)]

EmptyPage ==
    [preview |-> NoImage, chart |-> <<>>,
     diagnosis |-> [cls |-> None, conf |-> 0], errors |-> 0, uncaught |-> FALSE]

\* The statements of the upload handler, in program order.
StageOrder ==
    <<"decode", "cvt", "preprocess", "extract", "select", "classify", "argmax",
      "preview", "chart", "diagnosis">>

\* The calls that can raise on a decoded image: the preprocessing and the
\* three model calls (resource exhaustion, a shape the model rejects) and
\* the three rendering calls.
Fallible == {"preprocess", "extract", "select", "classify", "preview", "chart", "diagnosis"}

IndexOf(stage) == CHOOSE i \in DOMAIN StageOrder : StageOrder[i] = stage

\* Where control goes when a statement completes.
NextPcPreviewFirst(stage) ==
    CASE stage = "cvt" -> "preview"
      [] stage = "preview" -> "preprocess"
      [] stage = "argmax" -> "chart"
      [] stage = "diagnosis" -> "idle"
      [] OTHER -> StageOrder[IndexOf(stage) + 1]

NextPc(stage) ==
    IF IndexOf(stage) = Len(StageOrder) THEN "idle"
    ELSE StageOrder[IndexOf(stage) + 1]

\* The three reads of load_models, in program order.
LoadSteps ==
    <<"load feature_extractor.keras", "load final_feature_extractor_pipeline.pkl",
      "load mlp_model.pkl">>

\* The statements inside try: ... except Exception (lines 80-137);
\* load_models() is called at module level, outside it.
InTryNarrow(stage) ==
    stage \in {"decode", "cvt", "preprocess", "extract", "select", "classify", "argmax"}

InTry(stage) == stage \in Range(StageOrder)

\* except Exception as e: st.error(...)
HandleExceptionFallback(pg) ==
    [pg EXCEPT !.errors = @ + 1,
               !.diagnosis = [cls |-> CLASS_NAMES[3], conf |-> 0]]

HandleException(pg) == [pg EXCEPT !.errors = @ + 1]

\* @st.cache_resource: the body runs only when no result is cached
CacheHitNever == FALSE

CacheHit == cache.id # 0

Init ==
    /\ artifacts \in Artifacts
    /\ cache = NoModels
    /\ loads = 0
    /\ models = NoModels
    /\ uploaded_file = NoFile
    /\ pc = "idle"
    /\ img = NoImage
    /\ img_rgb = NoImage
    /\ pp = [image |-> NoImage]
    /\ img_processed = NoImage
    /\ features = <<>>
    /\ selected_features = <<>>
    /\ prediction_probs = <<>>
    /\ predictions = NoDict
    /\ predicted_class = None
    /\ page = EmptyPage
    /\ failed = None
    /\ trace = <<>>
    /\ runs = 0
    /\ used = {}
    /\ history = <<>>

process_vars == <<artifacts, cache, loads, runs, used, history>>
handler_vars == <<img, img_rgb, pp, img_processed, features, selected_features,
                  prediction_probs, predictions, predicted_class>>

\* A statement raises: inside the try the handler reports it, outside it
\* the exception leaves the script.
Raise(stage) ==
    /\ failed' = stage
    /\ page' = IF InTry(stage) THEN HandleException(page)
               ELSE [page EXCEPT !.uncaught = TRUE]
    /\ pc' = "idle"

\* An interaction (upload, replace or remove the file) reruns the script
\* from the top in a fresh namespace and on an empty page.
Rerun ==
    /\ pc = "idle"
    /\ runs < MaxRuns
    /\ runs' = runs + 1
    /\ uploaded_file' \in Uploads \cup {NoFile}
    /\ pc' = "load"
    /\ models' = NoModels
    /\ img' = NoImage
    /\ img_rgb' = NoImage
    /\ pp' = [image |-> NoImage]
    /\ img_processed' = NoImage
    /\ features' = <<>>
    /\ selected_features' = <<>>
    /\ prediction_probs' = <<>>
    /\ predictions' = NoDict
    /\ predicted_class' = None
    /\ page' = EmptyPage
    /\ failed' = None
    /\ trace' = <<>>
    /\ UNCHANGED <<artifacts, cache, loads, used, history>>

\* line 46, cached: load_models() returns the cached objects
LoadModelsCached ==
    /\ pc = "load"
    /\ CacheHit
    /\ models' = cache
    /\ pc' = "upload"
    /\ UNCHANGED <<artifacts, cache, loads, uploaded_file, runs, used, history,
                   page, failed, trace>>
    /\ UNCHANGED handler_vars

\* line 46, not cached: the body of load_models reads the three artifacts
\* and the result is cached
LoadModelsBody ==
    /\ pc = "load"
    /\ ~CacheHit
    /\ loads' = loads + 1
    /\ cache' = [id |-> loads + 1,
                 feature_extractor |-> artifacts.feature_extractor,
                 feature_selector |-> artifacts.feature_selector,
                 mlp_loaded |-> artifacts.mlp_loaded]
    /\ models' = cache'
    /\ pc' = "upload"
    /\ UNCHANGED <<artifacts, uploaded_file, runs, used, history, page, failed, trace>>
    /\ UNCHANGED handler_vars

\* line 46, not cached: reading one of the artifacts raises; nothing is
\* cached
LoadModelsRaises ==
    /\ pc = "load"
    /\ ~CacheHit
    /\ \E i \in DOMAIN LoadSteps : Raise(LoadSteps[i])
    /\ UNCHANGED <<artifacts, cache, loads, models, uploaded_file, runs, used,
                   history, trace>>
    /\ UNCHANGED handler_vars

\* lines 77-79: no file, nothing more to do
NoUpload ==
    /\ pc = "upload"
    /\ uploaded_file = NoFile
    /\ pc' = "idle"
    /\ UNCHANGED <<models, uploaded_file, page, failed, trace>>
    /\ UNCHANGED process_vars
    /\ UNCHANGED handler_vars

\* lines 79-83: read the bytes and decode them
Decode ==
    /\ pc = "upload"
    /\ uploaded_file # NoFile
    /\ img' = Imdecode(uploaded_file)
    /\ trace' = Append(trace, "decode")
    /\ pc' = NextPc("decode")
    /\ UNCHANGED <<models, uploaded_file, page, failed, img_rgb, pp, img_processed,
                   features, selected_features, prediction_probs, predictions,
                   predicted_class>>
    /\ UNCHANGED process_vars

\* line 84: cvtColor raises on None
Convert ==
    /\ pc = "cvt"
    /\ trace' = Append(trace, "cvt")
    /\ IF img = NoImage
       THEN /\ Raise("cvt")
            /\ UNCHANGED img_rgb
       ELSE /\ img_rgb' = CvtColor(img)
            /\ pc' = NextPc("cvt")
            /\ UNCHANGED <<page, failed>>
    /\ UNCHANGED <<models, uploaded_file, img, pp, img_processed, features,
                   selected_features, prediction_probs, predictions, predicted_class>>
    /\ UNCHANGED process_vars

\* a fallible call raises
StageRaises ==
    /\ pc \in Fallible
    /\ trace' = Append(trace, pc)
    /\ Raise(pc)
    /\ UNCHANGED <<models, uploaded_file>>
    /\ UNCHANGED process_vars
    /\ UNCHANGED handler_vars

\* line 64
Preprocess ==
    /\ pc = "preprocess"
    /\ trace' = Append(trace, "preprocess")
    /\ pp' = PreprocessLocals(img_rgb)
    /\ img_processed' = preprocess_image(img_rgb)
    /\ pc' = NextPc("preprocess")
    /\ UNCHANGED <<models, uploaded_file, page, failed, img, img_rgb, features,
                   selected_features, prediction_probs, predictions, predicted_class>>
    /\ UNCHANGED process_vars

\* line 65
Extract ==
    /\ pc = "extract"
    /\ trace' = Append(trace, "extract")
    /\ features' = ExtractorPredict(models.feature_extractor, ExpandDims(img_processed))
    /\ used' = used \cup {models.id}
    /\ pc' = NextPc("extract")
    /\ UNCHANGED <<models, uploaded_file, page, failed, img, img_rgb, pp, img_processed,
                   selected_features, prediction_probs, predictions, predicted_class>>
    /\ UNCHANGED <<artifacts, cache, loads, runs, history>>

\* line 66
Select ==
    /\ pc = "select"
    /\ trace' = Append(trace, "select")
    /\ selected_features' = SelectorTransform(models.feature_selector, features)
    /\ used' = used \cup {models.id}
    /\ pc' = NextPc("select")
    /\ UNCHANGED <<models, uploaded_file, page, failed, img, img_rgb, pp, img_processed,
                   features, prediction_probs, predictions, predicted_class>>
    /\ UNCHANGED <<artifacts, cache, loads, runs, history>>

\* lines 67-68 and the return to line 87
Classify ==
    /\ pc = "classify"
    /\ trace' = Append(trace, "classify")
    /\ prediction_probs' = PredictProba(models.mlp_loaded, selected_features)[1]
    /\ predictions' = DictZip(CLASS_NAMES, prediction_probs')
    /\ used' = used \cup {models.id}
    /\ history' = Append(history, <<pp.image, predictions'>>)
    /\ pc' = NextPc("classify")
    /\ UNCHANGED <<models, uploaded_file, page, failed, img, img_rgb, pp, img_processed,
                   features, selected_features, predicted_class>>
    /\ UNCHANGED <<artifacts, cache, loads, runs>>

\* line 88
Argmax ==
    /\ pc = "argmax"
    /\ trace' = Append(trace, "argmax")
    /\ predicted_class' = MaxKey(predictions)
    /\ pc' = NextPc("argmax")
    /\ UNCHANGED <<models, uploaded_file, page, failed, img, img_rgb, pp, img_processed,
                   features, selected_features, prediction_probs, predictions>>
    /\ UNCHANGED process_vars

\* lines 91-95
Preview ==
    /\ pc = "preview"
    /\ trace' = Append(trace, "preview")
    /\ page' = [page EXCEPT !.preview = img_rgb]
    /\ pc' = NextPc("preview")
    /\ UNCHANGED <<models, uploaded_file, failed>>
    /\ UNCHANGED process_vars
    /\ UNCHANGED handler_vars

\* lines 97-123
Chart ==
    /\ pc = "chart"
    /\ trace' = Append(trace, "chart")
    /\ page' = [page EXCEPT !.chart =
                   [i \in DOMAIN CLASS_NAMES |-> predictions.val[CLASS_NAMES[i]]]]
    /\ pc' = NextPc("chart")
    /\ UNCHANGED <<models, uploaded_file, failed>>
    /\ UNCHANGED process_vars
    /\ UNCHANGED handler_vars

\* lines 126-136
Diagnosis ==
    /\ pc = "diagnosis"
    /\ trace' = Append(trace, "diagnosis")
    /\ page' = [page EXCEPT !.diagnosis =
                   [cls |-> predicted_class,
                    conf |-> FormatPercent(predictions.val[predicted_class])]]
    /\ pc' = NextPc("diagnosis")
    /\ UNCHANGED <<models, uploaded_file, failed>>
    /\ UNCHANGED process_vars
    /\ UNCHANGED handler_vars

Next ==
    \/ Rerun
    \/ LoadModelsCached
    \/ LoadModelsBody
    \/ LoadModelsRaises
    \/ NoUpload
    \/ Decode
    \/ Convert
    \/ StageRaises
    \/ Preprocess
    \/ Extract
    \/ Select
    \/ Classify
    \/ Argmax
    \/ Preview
    \/ Chart
    \/ Diagnosis

Spec == Init /\ [][Next]_vars

(***************************************************************************)
(* Properties                                                              *)
(***************************************************************************)
IsPrefix(s, t) == Len(s) <= Len(t) /\ SubSeq(t, 1, Len(s)) = s

Original(file) == [shape |-> file.shape, px |-> file.rgb]

RunEnded == pc = "idle" /\ runs > 0

NothingRendered ==
    /\ page.preview = NoImage
    /\ page.chart = <<>>
    /\ page.diagnosis.cls = None

\* C1: whenever predict_image_class has returned, the keys of the returned
\* mapping are exactly the four class names and the value of the i-th name
\* of CLASS_NAMES is the i-th entry of the classifier's probability vector.
C1_KeysAndValues ==
    predictions # NoDict =>
        /\ DOMAIN predictions.val = {"Glioma", "Meningioma", "No Tumor", "Pituitary"}
        /\ Range(predictions.keys) = DOMAIN predictions.val
        /\ Len(predictions.keys) = 4
        /\ \A i \in DOMAIN CLASS_NAMES :
              predictions.val[CLASS_NAMES[i]] = prediction_probs[i]

C1_Witness ==
    /\ pc = "argmax"
    /\ prediction_probs = <<549, 1251, 3345, 4855>>
    /\ predictions.val["No Tumor"] = 3345

\* C2: the predicted class has a maximal probability, no class before it in
\* the order of CLASS_NAMES has the same probability, and the diagnosis
\* shows that class with its own probability as the confidence.
C2_FirstArgmax ==
    predicted_class # None =>
        LET p == predictions.val
            k == CHOOSE i \in DOMAIN CLASS_NAMES : CLASS_NAMES[i] = predicted_class
        IN  /\ predicted_class \in Range(CLASS_NAMES)
            /\ \A j \in DOMAIN CLASS_NAMES : p[CLASS_NAMES[j]] <= p[predicted_class]
            /\ \A j \in 1..(k - 1) : p[CLASS_NAMES[j]] < p[predicted_class]
            /\ page.diagnosis.cls # None =>
                  /\ page.diagnosis.cls = predicted_class
                  /\ page.diagnosis.conf = FormatPercent(p[predicted_class])

C2_Witness ==
    /\ prediction_probs = <<1000, 4000, 4000, 1000>>
    /\ page.diagnosis = [cls |-> "Meningioma", conf |-> 400]

\* C3: a run in which decoding, colour conversion, preprocessing, feature
\* extraction, feature selection or classification failed ends with exactly
\* one error message and nothing else rendered, has run no step twice, and
\* has used no model but the loaded ones.
C3_FailureIsClean ==
    (RunEnded /\ failed \in {"cvt", "preprocess", "extract", "select", "classify"}) =>
        /\ page.errors = 1
        /\ ~page.uncaught
        /\ NothingRendered
        /\ \A i, j \in DOMAIN trace : trace[i] = trace[j] => i = j
        /\ models = cache
        /\ used \subseteq {cache.id}

C3_Witness ==
    /\ RunEnded
    /\ failed = "classify"
    /\ page.errors = 1
    /\ selected_features # <<>>

\* C4 as stated: every run ends completed or in the one error message,
\* never in an uncaught exception, whatever step raised.
C4_Original ==
    RunEnded =>
        /\ ~page.uncaught
        /\ page.errors = (IF failed = None THEN 0 ELSE 1)

\* C4 amended: a run ends in one of three ways: completed with no message;
\* one error message and no uncaught exception, when a statement of the
\* upload handler raised; an uncaught exception and no message, when (and
\* only when) load_models raised.
C4_Amended ==
    RunEnded =>
        \/ failed = None /\ page.errors = 0 /\ ~page.uncaught
        \/ failed \in Range(StageOrder) /\ page.errors = 1 /\ ~page.uncaught
        \/ failed \in Range(LoadSteps) /\ page.errors = 0 /\ page.uncaught /\ NothingRendered

C4_Witness ==
    /\ RunEnded
    /\ failed = "chart"
    /\ page.errors = 1
    /\ page.preview # NoImage

\* C5: the body of load_models completes at most once in the process, every
\* step after line 46 runs with the cached objects, which are the artifacts
\* as loaded by that one load, and every inference has used those objects.
C5_LoadedOnce ==
    /\ loads <= 1
    /\ used \subseteq {1}
    /\ cache.id = loads
    /\ cache # NoModels =>
          cache = [id |-> 1,
                   feature_extractor |-> artifacts.feature_extractor,
                   feature_selector |-> artifacts.feature_selector,
                   mlp_loaded |-> artifacts.mlp_loaded]
    /\ (pc \in Range(StageOrder) \cup {"upload"} \/ trace # <<>>) =>
          /\ loads = 1
          /\ models = cache

C5_Witness ==
    /\ runs = 3
    /\ Len(history) = 2
    /\ pc = "extract"
    /\ loads = 1

\* C6: whatever the width and height of the input, the preprocessed image
\* has shape 224 x 224 x 3 and every value is k/255 with k an integer in
\* 0..255, hence in [0,1].
C6_ShapeAndRange ==
    img_processed # NoImage =>
        /\ img_processed.shape = <<224, 224, 3>>
        /\ Len(img_processed.px) = 3
        /\ \A i \in DOMAIN img_processed.px :
              LET x == img_processed.px[i]
              IN  /\ x.den = 255
                  /\ x.num \in 0..255
                  /\ 0 <= x.num /\ x.num <= x.den

C6_Witness ==
    /\ uploaded_file.shape = <<512, 512, 3>>
    /\ img_processed # NoImage
    /\ img_processed.px[1].num = 255
    /\ img_processed.px[2].num < 255

\* C7: on a constant-colour image the standard deviation and the range are
\* 0, both divisors are strictly positive, and the standardized and the
\* rescaled image are finite, the rescaled one all zeros.
C7_EpsilonGuards ==
    (pp.image # NoImage /\ \A i \in DOMAIN pp.image.px : pp.image.px[i] = pp.image.px[1]) =>
        /\ pp.std_div.v = 0
        /\ pp.ptp_div.v = 0
        /\ Positive(pp.std_div)
        /\ Positive(pp.ptp_div)
        /\ Finite(pp.standardized)
        /\ pp.rescaled = <<0, 0, 0>>

C7_Witness ==
    /\ pp.image # NoImage
    /\ pp.image.px = <<100, 100, 100>>
    /\ pp.quantized = <<0, 0, 0>>

\* C8: any two completed inferences of the process on the same image have
\* returned the same distribution.
C8_SameInputSameOutput ==
    \A i, j \in DOMAIN history :
        history[i][1] = history[j][1] => history[i][2] = history[j][2]

C8_Witness ==
    /\ Len(history) = 3
    /\ history[1][1] = history[3][1]
    /\ history[2][1] # history[1][1]
    /\ history[2][2] # history[1][2]

\* C9: the steps of a request run in the order decode, colour conversion,
\* preprocess, extract, select, classify, argmax, preview, chart, diagnosis,
\* each at most once and all of them when the request succeeds; each takes
\* the output of the one before; nothing is rendered before the classifier
\* has returned.
C9_LinearOrder ==
    /\ IsPrefix(trace, StageOrder)
    /\ (RunEnded /\ failed = None /\ uploaded_file # NoFile) => trace = StageOrder
    /\ ~NothingRendered =>
          /\ prediction_probs # <<>>
          /\ Len(trace) > IndexOf("classify")
    /\ img_processed # NoImage => pp.image = img_rgb /\ img_processed = pp.img_clahe
    /\ features # <<>> =>
          features = ExtractorPredict(models.feature_extractor, ExpandDims(img_processed))
    /\ selected_features # <<>> =>
          selected_features = SelectorTransform(models.feature_selector, features)
    /\ prediction_probs # <<>> =>
          prediction_probs = PredictProba(models.mlp_loaded, selected_features)[1]

C9_Witness ==
    /\ RunEnded
    /\ failed = None
    /\ trace = StageOrder
    /\ page.diagnosis.cls # None

\* C10: the preview is the uploaded image in red/green/blue order and is the
\* raster that was passed to predict_image_class; the decoder's output is
\* the blue/green/red order of it; the image is the same at every step
\* after the conversion.
C10_PreviewIsOriginal ==
    /\ img # NoImage => img = [shape |-> uploaded_file.shape, px |-> Reverse(uploaded_file.rgb)]
    /\ img_rgb # NoImage => img_rgb = Original(uploaded_file)
    /\ pp.image # NoImage => pp.image = Original(uploaded_file)
    /\ page.preview # NoImage =>
          /\ page.preview = Original(uploaded_file)
          /\ page.preview = pp.image

C10_Witness ==
    /\ page.preview # NoImage
    /\ page.preview.px = <<0, 100, 255>>
    /\ img.px = <<255, 100, 0>>
    /\ page.diagnosis.cls # None

====
